---- MODULE Spec2Model ----
(***************************************************************************)
(* Output dispatch of libsigrokdecode's Decoder type (type_decoder.c):     *)
(* Decoder_register, Decoder_put and the four payload converters.          *)
(*                                                                         *)
(* Python values are records (PyObject); a Python integer is kept as three *)
(* limbs x, h, v with value x*2^64 + h*2^32 + v and |h|, |v| < 2^15, so    *)
(* that the C conversions (PyLong_AsLong, PyLong_AsLongLong, the           *)
(* assignment of a long to an int) keep their widths.  long is 64 bits     *)
(* (LP64).  Allocations (g_try_malloc, g_malloc) are taken to succeed.     *)
(***************************************************************************)
EXTENDS Integers, Sequences, FiniteSets, TLC

VARIABLES
    pd_output,  \* per instance: di->pd_output, the list of registered outputs
    callbacks,  \* the output types the session has a callback (sink) for
    stack,      \* the call stack: Decoder_put and decode() activations
    pyerr,      \* the Python exception currently set ("none")
    nalloc,     \* struct srd_proto_data allocated and not yet freed
    crashed,    \* the process died on a NULL dereference
    ret         \* the call that returned last, with what it did; forgotten
                \* when decode() is called next and when the caller at the
                \* bottom of the stack goes on

vars == <<pd_output, callbacks, stack, pyerr, nalloc, crashed, ret>>

(***************************************************************************)
(* Bounds of the model.                                                    *)
(***************************************************************************)
\* streams registered over all instances in SpecReg
MaxStreams == 2
\* calls one activation of a downstream decode() may issue
MaxNestedCalls == 1
\* annotation classes / binary classes every decoder definition declares
NumAnnClasses == 2
NumBinClasses == 1

(***************************************************************************)
(* Program constants.                                                      *)
(***************************************************************************)
SRD_OUTPUT_ANN == 0
SRD_OUTPUT_PYTHON == 1
SRD_OUTPUT_BINARY == 2
SRD_OUTPUT_META == 3
SRD_OUTPUT_PACKET == 4
\* the two packet sub types; only their being distinct matters
SRD_PACKET_LOCATION == 0
SRD_PACKET_FIELD == 1

OutputTypes == {SRD_OUTPUT_ANN, SRD_OUTPUT_PYTHON, SRD_OUTPUT_BINARY,
                SRD_OUTPUT_META, SRD_OUTPUT_PACKET}
\* an output type outside the enumeration, which register stores as given
BadOutputType == 5

(***************************************************************************)
(* Python objects.                                                         *)
(***************************************************************************)
PyObj(t, x, h, v, s, b, items) ==
    [t |-> t, x |-> x, h |-> h, v |-> v, s |-> s, b |-> b, items |-> items]

PyLong(x, h, v) == PyObj("int", x, h, v, "", <<>>, <<>>)
PyInt(v) == PyLong(0, 0, v)
PyFloat(s) == PyObj("float", 0, 0, 0, s, <<>>, <<>>)
\* a string; v counts its characters outside ASCII
PyUnicodeEx(s, nonascii) == PyObj("str", 0, 0, nonascii, s, <<>>, <<>>)
PyUnicode(s) == PyUnicodeEx(s, 0)
PyBytes(b) == PyObj("bytes", 0, 0, 0, "", b, <<>>)
PyList(items) == PyObj("list", 0, 0, 0, "", <<>>, items)
PyTuple(items) == PyObj("tuple", 0, 0, 0, "", <<>>, items)
Py_None == PyObj("none", 0, 0, 0, "", <<>>, <<>>)

PyList_Check(o) == o.t = "list"
PyTuple_Check(o) == o.t = "tuple"
PyLong_Check(o) == o.t = "int"
PyFloat_Check(o) == o.t = "float"
PyBytes_Check(o) == o.t = "bytes"
PyUnicode_Check(o) == o.t = "str"

\* PyList_Size: -1 with SystemError set when the object is no list
PyList_Size(o) == IF PyList_Check(o) THEN Len(o.items) ELSE -1
PyList_SizeErr(o) == IF PyList_Check(o) THEN "none" ELSE "SystemError"
PyTuple_Size(o) == Len(o.items)
PyBytes_Size(o) == Len(o.b)

\* PyLong_AsLong assigned to an int: -1 with OverflowError set when the value
\* does not fit 64 bits, else the low 32 bits of the value
PyLong_AsLongErr(o) == IF o.x # 0 THEN "OverflowError" ELSE "none"
IntOfLong(o) == IF o.x # 0 THEN -1 ELSE o.v

\* PyLong_AsLongLong: the 64-bit value as its limbs <<h, v>>
PyLong_AsLongLongErr(o) == IF o.x # 0 THEN "OverflowError" ELSE "none"
PyLong_AsLongLong(o) == IF o.x # 0 THEN <<0, -1>> ELSE <<o.h, o.v>>

\* g_slist_nth on a list of n elements with an int index converted to guint:
\* a negative index becomes at least 2^31 and runs off the list.
\* The position (1-based) of the element, or 0 for NULL.
g_slist_nth_signed(n, idx) == IF idx < n THEN (IF idx >= 0 THEN idx + 1 ELSE n) ELSE 0
g_slist_nth(n, idx) == IF idx >= 0 /\ idx < n THEN idx + 1 ELSE 0

\* PyErr_Set*: an exception set later replaces the pending one

(***************************************************************************)
(* Decoder definitions: every decoder declares NumAnnClasses annotation    *)
(* classes and NumBinClasses binary classes (lists of non-NULL entries).   *)
(***************************************************************************)
AnnotationsLen(di) == NumAnnClasses
BinaryLen(di) == NumBinClasses

(***************************************************************************)
(* The converters.  Each yields                                            *)
(*   rc   : "SRD_OK" or "SRD_ERR_PYTHON"                                   *)
(*   err  : the Python exception the conversion leaves set ("none")        *)
(*   ub   : the conversion passed NULL to a Python type-check macro        *)
(*   data : what pdata->data points to on SRD_OK                           *)
(***************************************************************************)
NoData == [ty |-> "NULL", cls |-> 0, text |-> <<>>, bin |-> <<>>, size |-> 0,
           val |-> <<0, 0>>, dbl |-> "", sub |-> 0, num |-> 0,
           fname |-> <<>>, fvalue |-> <<>>, obj |-> Py_None]

ConvFail(err) == [rc |-> "SRD_ERR_PYTHON", err |-> err, ub |-> FALSE, data |-> NoData]
ConvUB(err) == [rc |-> "SRD_ERR_PYTHON", err |-> err, ub |-> TRUE, data |-> NoData]
ConvOk(err, data) == [rc |-> "SRD_OK", err |-> err, ub |-> FALSE, data |-> data]

\* py_strseq_to_char: the strings of a sequence, in order; fails when a
\* member is not a string
StrSeqOk(o) == \A i \in 1..Len(o.items) : PyUnicode_Check(o.items[i])
StrSeqChars(o) == [i \in 1..Len(o.items) |-> o.items[i].s]

AnnClassValid(di, ann_class) == g_slist_nth(AnnotationsLen(di), ann_class) # 0
BinClassValid(di, bin_class) == g_slist_nth(BinaryLen(di), bin_class) # 0

convert_annotation(di, obj) ==
    IF ~PyList_Check(obj) /\ ~PyTuple_Check(obj) THEN ConvFail("none")
    ELSE IF PyList_Size(obj) # 2 THEN ConvFail(PyList_SizeErr(obj))
    ELSE IF ~PyLong_Check(obj.items[1]) THEN ConvFail("none")
    ELSE IF ~AnnClassValid(di, IntOfLong(obj.items[1]))
         THEN ConvFail(PyLong_AsLongErr(obj.items[1]))
    ELSE IF ~PyList_Check(obj.items[2]) THEN ConvFail("none")
    ELSE IF ~StrSeqOk(obj.items[2]) THEN ConvFail("none")
    ELSE ConvOk("none", [NoData EXCEPT !.ty = "annotation",
                                       !.cls = IntOfLong(obj.items[1]),
                                       !.text = StrSeqChars(obj.items[2])])

convert_binary_noempty(di, obj) ==
    IF ~PyTuple_Check(obj) THEN ConvFail("none")
    ELSE IF PyTuple_Size(obj) # 2 THEN ConvFail(PyList_SizeErr(obj))
    ELSE IF ~PyLong_Check(obj.items[1]) THEN ConvFail("none")
    ELSE IF ~BinClassValid(di, IntOfLong(obj.items[1]))
         THEN ConvFail(PyLong_AsLongErr(obj.items[1]))
    ELSE IF ~PyBytes_Check(obj.items[2]) THEN ConvFail("none")
    ELSE ConvOk("none", [NoData EXCEPT !.ty = "binary",
                                       !.cls = IntOfLong(obj.items[1]),
                                       !.size = PyBytes_Size(obj.items[2]),
                                       !.bin = obj.items[2].b])

convert_binary(di, obj) ==
    IF ~PyTuple_Check(obj) THEN ConvFail("none")
    ELSE IF PyTuple_Size(obj) # 2 THEN ConvFail(PyList_SizeErr(obj))
    ELSE IF ~PyLong_Check(obj.items[1]) THEN ConvFail("none")
    ELSE IF ~BinClassValid(di, IntOfLong(obj.items[1]))
         THEN ConvFail(PyLong_AsLongErr(obj.items[1]))
    ELSE IF ~PyBytes_Check(obj.items[2]) THEN ConvFail("none")
    ELSE IF PyBytes_Size(obj.items[2]) = 0 THEN ConvFail("none")
    ELSE ConvOk("none", [NoData EXCEPT !.ty = "binary",
                                       !.cls = IntOfLong(obj.items[1]),
                                       !.size = PyBytes_Size(obj.items[2]),
                                       !.bin = obj.items[2].b])

convert_meta_silent(meta_type, obj) ==
    IF meta_type = "INT64" THEN
        IF ~PyLong_Check(obj) THEN ConvFail("none")
        ELSE IF PyLong_AsLongLongErr(obj) # "none"
             THEN ConvFail(PyLong_AsLongLongErr(obj))
        ELSE ConvOk("none", [NoData EXCEPT !.ty = "int64",
                                           !.val = PyLong_AsLongLong(obj)])
    ELSE IF meta_type = "DOUBLE" THEN
        IF ~PyFloat_Check(obj) THEN ConvFail("none")
        ELSE ConvOk("none", [NoData EXCEPT !.ty = "double", !.dbl = obj.s])
    ELSE ConvOk("none", NoData)

convert_meta(meta_type, obj) ==
    IF meta_type = "INT64" THEN
        IF ~PyLong_Check(obj) THEN ConvFail("TypeError")
        ELSE IF PyLong_AsLongLongErr(obj) # "none"
             THEN ConvFail(PyLong_AsLongLongErr(obj))
        ELSE ConvOk("none", [NoData EXCEPT !.ty = "int64",
                                           !.val = PyLong_AsLongLong(obj)])
    ELSE IF meta_type = "DOUBLE" THEN
        IF ~PyFloat_Check(obj) THEN ConvFail("TypeError")
        ELSE ConvOk("none", [NoData EXCEPT !.ty = "double", !.dbl = obj.s])
    ELSE ConvOk("none", NoData)

\* PyUnicode_AsASCIIString yields NULL for a string with a character outside
\* ASCII, and PyBytes_AsString is then handed NULL
AsciiOk(o) == o.v = 0

convert_packet(di, obj) ==
    IF ~PyList_Check(obj) THEN ConvFail("none")
    ELSE IF Len(obj.items) < 1 THEN ConvUB("IndexError")
    ELSE IF ~PyLong_Check(obj.items[1]) THEN ConvFail("none")
    ELSE IF ~AnnClassValid(di, IntOfLong(obj.items[1]))
         THEN ConvFail(PyLong_AsLongErr(obj.items[1]))
    ELSE IF Len(obj.items) < 2 THEN ConvUB("IndexError")
    ELSE IF ~PyLong_Check(obj.items[2]) THEN ConvFail("none")
    ELSE IF IntOfLong(obj.items[2]) = SRD_PACKET_LOCATION THEN
        IF PyList_Size(obj) # 3 THEN ConvFail("none")
        ELSE IF ~PyLong_Check(obj.items[3]) THEN ConvFail("none")
        ELSE ConvOk(PyLong_AsLongErr(obj.items[3]),
                    [NoData EXCEPT !.ty = "packet",
                                   !.cls = IntOfLong(obj.items[1]),
                                   !.sub = SRD_PACKET_LOCATION,
                                   !.num = IntOfLong(obj.items[3])])
    ELSE IF IntOfLong(obj.items[2]) = SRD_PACKET_FIELD THEN
        IF PyList_Size(obj) # 5 THEN ConvFail("none")
        ELSE IF ~PyLong_Check(obj.items[3]) THEN ConvFail("none")
        ELSE IF ~PyUnicode_Check(obj.items[4])
             THEN ConvFail(PyLong_AsLongErr(obj.items[3]))
        ELSE IF ~AsciiOk(obj.items[4]) THEN ConvUB("UnicodeEncodeError")
        ELSE IF ~PyUnicode_Check(obj.items[5])
             THEN ConvFail(PyLong_AsLongErr(obj.items[3]))
        ELSE IF ~AsciiOk(obj.items[5]) THEN ConvUB("UnicodeEncodeError")
        ELSE ConvOk(PyLong_AsLongErr(obj.items[3]),
                    [NoData EXCEPT !.ty = "packet",
                                   !.cls = IntOfLong(obj.items[1]),
                                   !.sub = SRD_PACKET_FIELD,
                                   !.num = IntOfLong(obj.items[3]),
                                   !.fname = <<obj.items[4].s>>,
                                   !.fvalue = <<obj.items[5].s>>])
    ELSE ConvFail(PyLong_AsLongErr(obj.items[2]))

(***************************************************************************)
(* The instance graph and the session.                                     *)
(***************************************************************************)
Insts == {1, 2, 3}
\* a Decoder object the runtime has no instance for
Ghost == 0
Objs == Insts \cup {Ghost}

srd_inst_find_by_obj_first(self) == IF self \in Insts THEN self ELSE 1

\* srd_inst_find_by_obj: the instance, or 0 for NULL
srd_inst_find_by_obj(self) == IF self \in Insts THEN self ELSE 0

\* di->next_di: the instances stacked on an instance, in stacking order
NextDi(i) == CASE i = 1 -> <<2, 3>> [] i = 2 -> <<3>> [] OTHER -> <<>>

CallbackFoundAlways(output_type) == TRUE

\* srd_pd_output_callback_find
CallbackFound(output_type) == output_type \in callbacks

\* the sessions: no callback, a callback for every output type, and two
\* sessions with callbacks for some
CallbackSets == {{}, {SRD_OUTPUT_ANN, SRD_OUTPUT_META, SRD_OUTPUT_PACKET},
                 {SRD_OUTPUT_PYTHON, SRD_OUTPUT_BINARY}, OutputTypes}

(***************************************************************************)
(* Records of the state.                                                   *)
(***************************************************************************)
Frame(k, self, ss, es, oid, obj, otype, mtype, l, py_res, decoded, calls) ==
    [k |-> k, self |-> self, ss |-> ss, es |-> es, oid |-> oid, obj |-> obj,
     otype |-> otype, mtype |-> mtype, l |-> l, py_res |-> py_res,
     decoded |-> decoded, calls |-> calls]

DecodeFrame(inst, ss, es, obj) ==
    Frame("decode", inst, ss, es, 0, obj, 0, "NULL", 0, "none", <<>>, 0)

\* one PyObject_CallMethod(next_di->py_inst, "decode", ...) of a put
DecodeCall(inst, ss, es, obj) ==
    [inst |-> inst, ss |-> ss, es |-> es, obj |-> obj, res |-> "pending"]

NoRet == [fn |-> "none", self |-> 0, ok |-> TRUE, ss |-> 0, es |-> 0, oid |-> 0,
          obj |-> Py_None, output_type |-> 0, meta |-> "", res |-> "", id |-> 0,
          err |-> "none", otype |-> 0, mtype |-> "NULL", resolved |-> FALSE,
          conv |-> "none", decoded |-> <<>>, sunk |-> <<>>, log |-> <<>>,
          allocs |-> 0, frees |-> 0, pdo0 |-> <<>>]

Top == stack[Len(stack)]
BelowDropped == <<>>
\* the callers of the call on top of the stack
Below == SubSeq(stack, 1, Len(stack) - 1)

\* The return of a call to its caller.  NULL with no exception set makes the
\* interpreter raise SystemError.  A downstream decode() that called sees the
\* exception raised in its code; a call from the runtime's side (empty stack)
\* has the exception noted in ret and cleared.
Returns(below, r, err) ==
    LET e == IF r.res = "NULL" /\ err = "none" THEN "SystemError" ELSE err
    IN /\ ret' = [r EXCEPT !.err = e]
       /\ stack' = below
       /\ pyerr' = IF below = <<>> THEN "none" ELSE e

(***************************************************************************)
(* Decoder_register                                                        *)
(***************************************************************************)
RegArgs(ok, output_type, meta) ==
    [ok |-> ok, output_type |-> output_type, meta |-> meta]

\* meta_type_gv for the Python type given ("omitted": no meta triple, so
\* meta_type_py stays NULL)
MetaTypeGv(meta) ==
    CASE meta = "int" -> "INT64" [] meta = "float" -> "DOUBLE" [] OTHER -> "NULL"

MetaSupportedAlways(meta) == TRUE
MetaSupported(meta) == MetaTypeGv(meta) # "NULL"

NewPdoIdFromOne(list) == Len(list) + 1
NewPdoId(list) == Len(list)

NewPdo(list, di, output_type, meta) ==
    [pdo_id |-> NewPdoId(list), output_type |-> output_type, di |-> di,
     meta_type |-> IF output_type = SRD_OUTPUT_META THEN MetaTypeGv(meta)
                   ELSE "NULL"]

Decoder_register(below, self, a) ==
    LET r0 == [NoRet EXCEPT !.fn = "register", !.self = self, !.ok = a.ok,
                            !.output_type = a.output_type, !.meta = a.meta,
                            !.res = "NULL",
                            !.pdo0 = IF self \in Insts THEN pd_output[self]
                                     ELSE <<>>]
        di == srd_inst_find_by_obj(self)
    IN IF di = 0 THEN
           /\ Returns(below, r0, "Exception")
           /\ UNCHANGED <<pd_output, callbacks, nalloc, crashed>>
       ELSE IF ~a.ok THEN
           /\ Returns(below, r0, "TypeError")
           /\ UNCHANGED <<pd_output, callbacks, nalloc, crashed>>
       ELSE IF a.output_type = SRD_OUTPUT_META /\ ~MetaSupported(a.meta) THEN
           \* meta_type_py->tp_name with meta_type_py NULL when the triple
           \* is omitted: the read faults, or yields some name
           \/ /\ Returns(below, r0, "TypeError")
              /\ UNCHANGED <<pd_output, callbacks, nalloc, crashed>>
           \/ /\ a.meta = "omitted"
              /\ crashed' = TRUE
              /\ ret' = [r0 EXCEPT !.res = "fault"]
              /\ UNCHANGED <<pd_output, callbacks, nalloc, stack, pyerr>>
       ELSE
           /\ pd_output' = [pd_output EXCEPT ![di] =
                   Append(@, NewPdo(@, di, a.output_type, a.meta))]
           /\ Returns(below, [r0 EXCEPT !.res = "int",
                                        !.id = NewPdoId(pd_output[di])], "none")
           /\ UNCHANGED <<callbacks, nalloc, crashed>>

(***************************************************************************)
(* Decoder_put                                                             *)
(***************************************************************************)
PutArgs(ok, ss, es, oid, obj) ==
    [ok |-> ok, ss |-> ss, es |-> es, oid |-> oid, obj |-> obj]

ForwardsAnnToo(output_type) ==
    output_type \in {SRD_OUTPUT_ANN, SRD_OUTPUT_PYTHON, SRD_OUTPUT_PACKET}

ForwardsNoPacket(output_type) == output_type = SRD_OUTPUT_PYTHON

\* the output types whose case of the switch walks di->next_di
Forwards(output_type) ==
    output_type \in {SRD_OUTPUT_PYTHON, SRD_OUTPUT_PACKET}

ConvertedAlways(output_type) == output_type \in OutputTypes

\* the output types whose case of the switch runs a converter before the
\* callback
Converted(output_type) ==
    output_type \in {SRD_OUTPUT_ANN, SRD_OUTPUT_BINARY, SRD_OUTPUT_META,
                     SRD_OUTPUT_PACKET}

Convert(f) ==
    CASE f.otype = SRD_OUTPUT_ANN -> convert_annotation(f.self, f.obj)
      [] f.otype = SRD_OUTPUT_BINARY -> convert_binary(f.self, f.obj)
      [] f.otype = SRD_OUTPUT_META -> convert_meta(f.mtype, f.obj)
      [] OTHER -> convert_packet(f.self, f.obj)

\* what cb->cb(pdata, cb->cb_data) is handed
Event(f, data) ==
    [di |-> f.self, pdo_id |-> f.oid, output_type |-> f.otype,
     start_sample |-> f.ss, end_sample |-> f.es, data |-> data]

NoDispatch == [conv |-> "none", err |-> "none", ub |-> FALSE, sunk |-> <<>>,
               log |-> <<>>]

\* srd_err is called by the annotation, binary and packet converters on
\* every failure; convert_meta only sets the exception
ConvLog(f, c) ==
    IF c.rc # "SRD_OK" /\ f.otype # SRD_OUTPUT_META THEN <<"conversion">>
    ELSE <<>>

\* The part of the switch after the walk of di->next_di: the callback, with
\* the conversion where the case has one.
Dispatch(f) ==
    IF f.otype \notin OutputTypes
    THEN [NoDispatch EXCEPT !.log = <<"invalid output type">>]
    ELSE IF ~CallbackFound(f.otype) THEN NoDispatch
    ELSE IF ~Converted(f.otype)
    THEN [NoDispatch EXCEPT
             !.sunk = <<Event(f, [NoData EXCEPT !.ty = "python", !.obj = f.obj])>>]
    ELSE LET c == Convert(f)
         IN [conv |-> c.rc, err |-> c.err, ub |-> c.ub,
             sunk |-> IF c.rc = "SRD_OK" THEN <<Event(f, c.data)>> ELSE <<>>,
             log |-> ConvLog(f, c)]

PutRet(f, pdo0) ==
    [NoRet EXCEPT !.fn = "put", !.self = f.self, !.ss = f.ss, !.es = f.es,
                  !.oid = f.oid, !.obj = f.obj, !.otype = f.otype,
                  !.mtype = f.mtype, !.pdo0 = pdo0]

g_free_skipped(live) == live

\* g_free(pdata): one struct srd_proto_data less is allocated
g_free(live) == live - 1

\* The end of a put whose stream was resolved: callback, g_free(pdata),
\* Py_RETURN_NONE.  A converter that handed NULL to a type-check macro
\* either faults there or fails the conversion.
Finish(below, f, live) ==
    LET d == Dispatch(f)
        r == [PutRet(f, pd_output[f.self]) EXCEPT
                 !.res = "None", !.resolved = TRUE, !.conv = d.conv,
                 !.decoded = f.decoded, !.sunk = d.sunk, !.log = d.log,
                 !.allocs = 1, !.frees = 1]
    IN \/ /\ Returns(below, r, d.err)
          /\ nalloc' = g_free(live)
          /\ UNCHANGED <<pd_output, callbacks, crashed>>
       \/ /\ d.ub
          /\ crashed' = TRUE
          /\ stack' = Append(below, [f EXCEPT !.py_res = "crashed"])
          /\ nalloc' = live
          /\ UNCHANGED <<pd_output, callbacks, pyerr, ret>>

\* the call of decode() on the l-th instance of di->next_di
CallDecode(below, f, l, live) ==
    LET next_di == NextDi(f.self)[l]
    IN /\ stack' = below \o
            <<[f EXCEPT !.l = l, !.py_res = "pending",
                        !.decoded = Append(@, DecodeCall(next_di, f.ss, f.es, f.obj))],
              DecodeFrame(next_di, f.ss, f.es, f.obj)>>
       /\ nalloc' = live
       /\ pyerr' = "none"
       /\ ret' = NoRet
       /\ UNCHANGED <<pd_output, callbacks, crashed>>

\* the index is inside OUTPUT_TYPES
NamedOutputType(output_type) == output_type \in OutputTypes

Decoder_put(below, self, a) ==
    LET di == srd_inst_find_by_obj(self)
        f0 == Frame("put", di, a.ss, a.es, a.oid, a.obj, 0, "NULL", 0, "none",
                    <<>>, 0)
    IN IF di = 0 THEN
           /\ Returns(below, [PutRet(f0, <<>>) EXCEPT !.res = "NULL", !.ok = a.ok],
                      "none")
           /\ UNCHANGED <<pd_output, callbacks, nalloc, crashed>>
       ELSE IF ~a.ok THEN
           /\ Returns(below, [PutRet(f0, pd_output[di]) EXCEPT
                                 !.res = "NULL", !.ok = FALSE], "TypeError")
           /\ UNCHANGED <<pd_output, callbacks, nalloc, crashed>>
       ELSE IF g_slist_nth(Len(pd_output[di]), a.oid) = 0 THEN
           /\ Returns(below, [PutRet(f0, pd_output[di]) EXCEPT
                                 !.res = "NULL",
                                 !.log = <<"invalid output ID">>], "none")
           /\ UNCHANGED <<pd_output, callbacks, nalloc, crashed>>
       ELSE LET pdo == pd_output[di][g_slist_nth(Len(pd_output[di]), a.oid)]
                f == [f0 EXCEPT !.otype = pdo.output_type,
                                !.mtype = pdo.meta_type]
            IN \/ IF Forwards(f.otype) /\ NextDi(di) # <<>>
                  THEN CallDecode(below, f, 1, nalloc + 1)
                  ELSE Finish(below, f, nalloc + 1)
               \* srd_spew(..., OUTPUT_TYPES[pdo->output_type], ...) reads
               \* outside the array for an output type it has no name for:
               \* the read faults, or yields some pointer
               \/ /\ ~NamedOutputType(f.otype)
                  /\ crashed' = TRUE
                  /\ ret' = [PutRet(f, pd_output[di]) EXCEPT !.res = "fault"]
                  /\ UNCHANGED <<pd_output, callbacks, stack, pyerr, nalloc>>

\* Back in the loop over di->next_di after decode() came back: a failed call
\* is caught (srd_exception_catch clears the exception), then the next
\* instance is called or the loop ends.
LoopEndsOnFailure(f) == f.py_res = "ok" /\ f.l < Len(NextDi(f.self))

\* for (l = di->next_di; l; l = l->next): there is a next instance
LoopContinues(f) == f.l < Len(NextDi(f.self))

PutResume ==
    /\ ~crashed
    /\ stack # <<>>
    /\ Top.k = "put"
    /\ Top.py_res \in {"ok", "NULL"}
    /\ IF LoopContinues(Top)
       THEN CallDecode(Below, Top, Top.l + 1, nalloc)
       ELSE Finish(Below, Top, nalloc)

(***************************************************************************)
(* The code of a stacked decoder's decode(): it may call put, catch an     *)
(* exception a call raised, return, or raise.                              *)
(***************************************************************************)
InDecode == ~crashed /\ stack # <<>> /\ Top.k = "decode"

SetDecodeResult(put, res) ==
    [put EXCEPT !.py_res = IF res = "ok" THEN "ok" ELSE "NULL",
                !.decoded[Len(put.decoded)].res = res]

DecodeDone(res) ==
    stack' = [i \in 1..(Len(stack) - 1) |->
                 IF i = Len(stack) - 1 THEN SetDecodeResult(stack[i], res)
                 ELSE stack[i]]

DecodeReturn ==
    /\ InDecode
    /\ pyerr = "none"
    /\ DecodeDone("ok")
    /\ UNCHANGED <<pd_output, callbacks, pyerr, nalloc, crashed, ret>>

DecodeRaise ==
    /\ InDecode
    /\ DecodeDone("failed")
    /\ pyerr' = IF pyerr = "none" THEN "Exception" ELSE pyerr
    /\ UNCHANGED <<pd_output, callbacks, nalloc, crashed, ret>>

DecodeCatch ==
    /\ InDecode
    /\ pyerr # "none"
    /\ pyerr' = "none"
    /\ UNCHANGED <<pd_output, callbacks, stack, nalloc, crashed, ret>>

(***************************************************************************)
(* Inputs.                                                                 *)
(***************************************************************************)
\* class indices: the last declared one, and the first undeclared one
AnnOk == PyInt(NumAnnClasses - 1)
AnnBad == PyInt(NumAnnClasses)
BinOk == PyInt(NumBinClasses - 1)
BinBad == PyInt(NumBinClasses)
\* 2^32 + (a declared index), 2^64, -1
AnnWrap == PyLong(0, 1, NumAnnClasses - 1)
BinWrap == PyLong(0, 1, NumBinClasses - 1)
Huge == PyLong(1, 0, 0)
Minus1 == PyInt(-1)

TextAB == PyList(<<PyUnicode("a"), PyUnicode("b")>>)
Bytes12 == PyBytes(<<1, 2>>)
Loc == PyInt(SRD_PACKET_LOCATION)
Fld == PyInt(SRD_PACKET_FIELD)

ScalarPayloads ==
    {PyInt(42), PyLong(0, 1, 42), Huge, PyFloat("3.14"), PyUnicode("a"), Py_None}

AnnPayloads ==
    {PyList(<<AnnOk, TextAB>>),
     PyList(<<PyInt(0), PyList(<<>>)>>),
     PyList(<<AnnOk>>),
     PyList(<<AnnOk, TextAB, TextAB>>),
     PyList(<<AnnOk, PyUnicode("a")>>),
     PyList(<<AnnOk, PyList(<<PyUnicode("a"), PyInt(1)>>)>>),
     PyList(<<AnnOk, PyTuple(<<PyUnicode("a")>>)>>),
     PyList(<<AnnBad, TextAB>>),
     PyList(<<Minus1, TextAB>>),
     PyList(<<AnnWrap, TextAB>>),
     PyList(<<Huge, TextAB>>),
     PyList(<<PyUnicode("a"), TextAB>>),
     PyTuple(<<AnnOk, TextAB>>),
     PyTuple(<<AnnOk>>)}

BinPayloads ==
    {PyTuple(<<BinOk, Bytes12>>),
     PyTuple(<<BinOk, PyBytes(<<>>)>>),
     PyTuple(<<BinOk, Bytes12, PyInt(1)>>),
     PyTuple(<<BinOk>>),
     PyList(<<BinOk, Bytes12>>),
     PyTuple(<<BinBad, Bytes12>>),
     PyTuple(<<Minus1, Bytes12>>),
     PyTuple(<<BinWrap, Bytes12>>),
     PyTuple(<<BinOk, PyUnicode("a")>>),
     PyTuple(<<PyUnicode("a"), Bytes12>>)}

PacketPayloads ==
    {PyList(<<AnnOk, Loc, PyInt(7)>>),
     PyList(<<AnnOk, Loc>>),
     PyList(<<AnnOk, Loc, PyInt(7), PyInt(8)>>),
     PyList(<<AnnOk, Loc, PyUnicode("x")>>),
     PyList(<<AnnOk, Loc, PyLong(0, 1, 7)>>),
     PyList(<<AnnOk, Fld, PyInt(7), PyUnicode("n"), PyUnicode("v")>>),
     PyList(<<AnnOk, Fld, PyInt(7), PyUnicode("n")>>),
     PyList(<<AnnOk, Fld, PyInt(7)>>),
     PyList(<<AnnOk, Fld, PyInt(7), PyInt(1), PyUnicode("v")>>),
     PyList(<<AnnOk, Fld, PyInt(7), PyUnicode("n"), PyInt(1)>>),
     PyList(<<AnnOk, Fld, PyUnicode("x"), PyUnicode("n"), PyUnicode("v")>>),
     PyList(<<AnnOk, Fld, PyInt(7), PyUnicodeEx("n", 1), PyUnicode("v")>>),
     PyList(<<AnnOk, PyInt(9), PyInt(7)>>),
     PyList(<<AnnOk, PyUnicode("x"), PyInt(7)>>),
     PyList(<<AnnBad, Loc, PyInt(7)>>),
     PyList(<<AnnWrap, Loc, PyInt(7)>>),
     PyList(<<>>),
     PyList(<<AnnOk>>),
     PyTuple(<<AnnOk, Loc, PyInt(7)>>)}

\* what a put at the bottom of the stack is given
Payloads == ScalarPayloads \cup AnnPayloads \cup BinPayloads \cup PacketPayloads
SampleRanges == {<<0, 1>>, <<5, 3>>}

\* what a put issued by a downstream decode() is given
NestedPayloads == {PyList(<<AnnOk, TextAB>>), PyInt(42)}
NestedSampleRanges == {<<2, 4>>}

\* output ids: -1, those some instance has registered, and the next one
MaxLen == CHOOSE n \in 0..64 :
            /\ \A i \in Insts : Len(pd_output[i]) <= n
            /\ \E i \in Insts : Len(pd_output[i]) = n
Oids == -1 .. MaxLen
\* output ids of a put by a downstream decode(): -1, its own, and the next one
NestedOids(self) == -1 .. Len(pd_output[self])

BadPutArgs == PutArgs(FALSE, 0, 0, 0, Py_None)
PutInputs(ranges, oids, payloads) ==
    {PutArgs(TRUE, sr[1], sr[2], oid, obj) :
        sr \in ranges, oid \in oids, obj \in payloads} \cup {BadPutArgs}

MetaArgs == {"omitted", "int", "float", "str"}
RegInputs ==
    {RegArgs(TRUE, ot, meta) :
        ot \in OutputTypes \cup {BadOutputType}, meta \in MetaArgs}
    \cup {RegArgs(FALSE, 0, "omitted")}

(***************************************************************************)
(* The outputs each instance registers when it is started (Spec).          *)
(***************************************************************************)
Outputs(i) ==
    CASE i = 1 -> <<RegArgs(TRUE, SRD_OUTPUT_ANN, "omitted"),
                    RegArgs(TRUE, SRD_OUTPUT_PYTHON, "omitted"),
                    RegArgs(TRUE, SRD_OUTPUT_BINARY, "omitted"),
                    RegArgs(TRUE, SRD_OUTPUT_META, "int"),
                    RegArgs(TRUE, SRD_OUTPUT_META, "float"),
                    RegArgs(TRUE, SRD_OUTPUT_PACKET, "omitted"),
                    RegArgs(TRUE, BadOutputType, "omitted")>>
      [] i = 2 -> <<RegArgs(TRUE, SRD_OUTPUT_PYTHON, "omitted"),
                    RegArgs(TRUE, SRD_OUTPUT_ANN, "omitted"),
                    RegArgs(TRUE, SRD_OUTPUT_META, "float"),
                    RegArgs(TRUE, SRD_OUTPUT_PACKET, "omitted")>>
      [] OTHER -> <<RegArgs(TRUE, SRD_OUTPUT_PACKET, "omitted"),
                    RegArgs(TRUE, SRD_OUTPUT_META, "int"),
                    RegArgs(TRUE, SRD_OUTPUT_ANN, "omitted")>>

Started(i) == Len(pd_output[i]) >= Len(Outputs(i))
AllStarted == \A i \in Insts : Started(i)

(***************************************************************************)
(* Actions.                                                                *)
(***************************************************************************)
Init ==
    /\ pd_output = [i \in Insts |-> <<>>]
    /\ callbacks \in CallbackSets
    /\ stack = <<>>
    /\ pyerr = "none"
    /\ nalloc = 0
    /\ crashed = FALSE
    /\ ret = NoRet

\* the caller at the bottom of the stack goes on after a call returned
Idle == ~crashed /\ stack = <<>> /\ ret = NoRet

CallerProceeds ==
    /\ ~crashed
    /\ stack = <<>>
    /\ ret # NoRet
    /\ ret' = NoRet
    /\ UNCHANGED <<pd_output, callbacks, stack, pyerr, nalloc, crashed>>

\* Spec: the instances register their outputs, one instance after the other
Start ==
    /\ Idle
    /\ \E i \in Insts :
          /\ ~Started(i)
          /\ \A j \in Insts : j < i => Started(j)
          /\ Decoder_register(<<>>, i, Outputs(i)[Len(pd_output[i]) + 1])

\* Spec: a put from the bottom of the stack, once the outputs are registered
RootPut ==
    /\ Idle
    /\ AllStarted
    /\ \E self \in Objs, a \in PutInputs(SampleRanges, Oids, Payloads) :
          Decoder_put(<<>>, self, a)

\* a put by the code of a downstream decode()
DecodePut ==
    /\ InDecode
    /\ pyerr = "none"
    /\ Top.calls < MaxNestedCalls
    /\ \E a \in PutInputs(NestedSampleRanges, NestedOids(Top.self), NestedPayloads) :
          Decoder_put([stack EXCEPT ![Len(stack)].calls = @ + 1], Top.self, a)

\* SpecReg: register calls with every input, MaxStreams outputs in all
RegRegister ==
    /\ Idle
    /\ Len(pd_output[1]) + Len(pd_output[2]) + Len(pd_output[3]) < MaxStreams
    /\ \E self \in Objs, a \in RegInputs : Decoder_register(<<>>, self, a)

\* SpecReg: a put from the bottom of the stack
RegPut ==
    /\ Idle
    /\ \E self \in Objs, a \in PutInputs(NestedSampleRanges, Oids, NestedPayloads) :
          Decoder_put(<<>>, self, a)

Next ==
    \/ CallerProceeds
    \/ Start
    \/ RootPut
    \/ PutResume
    \/ DecodePut
    \/ DecodeReturn
    \/ DecodeRaise
    \/ DecodeCatch

Spec == Init /\ [][Next]_vars

NextReg ==
    \/ CallerProceeds
    \/ RegRegister
    \/ RegPut
    \/ PutResume
    \/ DecodePut
    \/ DecodeReturn
    \/ DecodeRaise
    \/ DecodeCatch

SpecReg == Init /\ [][NextReg]_vars

(***************************************************************************)
(* Properties.                                                             *)
(***************************************************************************)
IsPrefix(s, t) == Len(s) <= Len(t) /\ SubSeq(t, 1, Len(s)) = s

PutFrames == {i \in 1..Len(stack) : stack[i].k = "put"}

\* a put that resolved its instance and its stream has returned
PutReturned == ret.fn = "put" /\ ret.resolved

RegisterReturned == ret.fn = "register" /\ ret.ok /\ ret.self \in Insts

IdsArePositions ==
    \A i \in Insts : \A k \in 1..Len(pd_output[i]) : pd_output[i][k].pdo_id = k - 1

RegisterResult ==
    RegisterReturned =>
        IF ret.res = "int"
        THEN /\ ret.id = Len(ret.pdo0)
             /\ Len(pd_output[ret.self]) = ret.id + 1
             /\ IsPrefix(ret.pdo0, pd_output[ret.self])
             /\ pd_output[ret.self][ret.id + 1].output_type = ret.output_type
        ELSE pd_output[ret.self] = ret.pdo0

\* a step changes an output list only by a successful register of that
\* instance, which appends one output and returns its position as the id
ListsOnlyGrowByRegister ==
    \A i \in Insts :
        \/ pd_output'[i] = pd_output[i]
        \/ /\ Len(pd_output'[i]) = Len(pd_output[i]) + 1
           /\ IsPrefix(pd_output[i], pd_output'[i])
           /\ ret'.fn = "register" /\ ret'.self = i /\ ret'.res = "int"
           /\ ret'.id = Len(pd_output[i])

\* C1: the k-th successful register of an instance (from 0) returns k: the
\* id returned is the number of outputs registered before, the output at
\* position i has pdo_id i, a failed register and a put leave the list as it
\* was, and a registered output never changes or moves.
C1_DenseStreamIds ==
    /\ [](IdsArePositions /\ RegisterResult)
    /\ [][ListsOnlyGrowByRegister]_vars

C1_Witness ==
    /\ ret.fn = "register" /\ ret.res = "int" /\ ret.id = 1
    /\ \E i \in Insts \ {ret.self} : Len(pd_output[i]) = 0

\* every struct srd_proto_data allocated belongs to a put on the stack
LiveEventsAreOnStack == nalloc = Cardinality(PutFrames)

\* C2: a put whose output id is not in [0, registered count) of the calling
\* instance fails (NULL, which the interpreter raises as an error), calls no
\* callback and no decode(), and allocates no struct srd_proto_data; no put
\* with such an id is ever in progress.
C2_UnknownStreamId ==
    /\ LiveEventsAreOnStack
    /\ \A i \in PutFrames :
          stack[i].oid >= 0 /\ stack[i].oid < Len(pd_output[stack[i].self])
    /\ (/\ ret.fn = "put" /\ ret.ok /\ ret.self \in Insts
        /\ ~(ret.oid >= 0 /\ ret.oid < Len(pd_output[ret.self])))
       => /\ ret.res = "NULL" /\ ret.err # "none"
          /\ ~ret.resolved
          /\ ret.log = <<"invalid output ID">>
          /\ ret.sunk = <<>> /\ ret.decoded = <<>> /\ ret.allocs = 0

\* an id that only instance 1 has registered, put by instance 3
C2_Witness ==
    /\ ret.fn = "put" /\ ret.ok /\ ret.self = 3 /\ ret.res = "NULL"
    /\ ret.oid >= Len(pd_output[3]) /\ ret.oid < Len(pd_output[1])
    /\ SRD_OUTPUT_PACKET \in callbacks

\* the decode() calls of a put on the instances stacked on it, as far as the
\* loop has come: each instance once, in stacking order, each with the
\* put's samples and payload
DecodedInOrder(self, ss, es, obj, decoded, n) ==
    /\ Len(decoded) = n
    /\ n <= Len(NextDi(self))
    /\ \A j \in 1..n :
          /\ decoded[j].inst = NextDi(self)[j]
          /\ decoded[j].ss = ss /\ decoded[j].es = es /\ decoded[j].obj = obj

DecodedAll(r) ==
    /\ DecodedInOrder(r.self, r.ss, r.es, r.obj, r.decoded, Len(NextDi(r.self)))
    /\ \A j \in 1..Len(r.decoded) : r.decoded[j].res \in {"ok", "failed"}

\* a put in its loop: the calls before the current one are over, whatever
\* they returned, and the current one runs right above it
LoopInOrder(i) ==
    LET f == stack[i]
    IN /\ f.l >= 1
       /\ DecodedInOrder(f.self, f.ss, f.es, f.obj, f.decoded, f.l)
       /\ \A j \in 1..(f.l - 1) : f.decoded[j].res \in {"ok", "failed"}
       /\ IF f.py_res = "pending"
          THEN /\ f.decoded[f.l].res = "pending"
               /\ i < Len(stack)
               /\ stack[i + 1].k = "decode"
               /\ stack[i + 1].self = NextDi(f.self)[f.l]
               /\ stack[i + 1].ss = f.ss /\ stack[i + 1].es = f.es
               /\ stack[i + 1].obj = f.obj
          ELSE /\ f.decoded[f.l].res \in {"ok", "failed"}
               /\ i = Len(stack)

\* C3: a put on an OUTPUT_PYTHON or OUTPUT_PACKET output calls decode() once
\* on every instance stacked on the caller, in stacking order, with the put's
\* start sample, end sample and payload, whichever of the calls fail.
C3_ForwardInOrder ==
    /\ (PutReturned /\ Forwards(ret.otype)) => DecodedAll(ret)
    /\ \A i \in PutFrames :
          IF stack[i].py_res = "crashed"
          THEN Forwards(stack[i].otype) => DecodedAll(stack[i])
          ELSE Forwards(stack[i].otype) /\ LoopInOrder(i)

\* the first of two downstream instances failed, the second was still called
C3_Witness ==
    /\ PutReturned /\ ret.self = 1 /\ ret.otype = SRD_OUTPUT_PYTHON
    /\ Len(ret.decoded) = 2
    /\ ret.decoded[1].res = "failed" /\ ret.decoded[2].res = "ok"

\* C4: a put on an OUTPUT_ANN, OUTPUT_BINARY or OUTPUT_META output calls no
\* decode(); every decode() running was called by a put on an OUTPUT_PYTHON
\* or OUTPUT_PACKET output.
C4_TerminalKinds ==
    /\ (/\ PutReturned
        /\ ret.otype \in {SRD_OUTPUT_ANN, SRD_OUTPUT_BINARY, SRD_OUTPUT_META})
       => ret.decoded = <<>>
    /\ \A i \in 1..Len(stack) :
          IF stack[i].k = "decode"
          THEN /\ i > 1
               /\ stack[i - 1].k = "put"
               /\ stack[i - 1].otype \in {SRD_OUTPUT_PYTHON, SRD_OUTPUT_PACKET}
          ELSE stack[i].decoded # <<>> =>
                   stack[i].otype \in {SRD_OUTPUT_PYTHON, SRD_OUTPUT_PACKET}

\* an annotation put of an instance with stacked instances, its callback
\* registered and its conversion failing
C4_Witness ==
    /\ PutReturned /\ ret.self = 1 /\ ret.otype = SRD_OUTPUT_ANN
    /\ ret.conv = "SRD_ERR_PYTHON" /\ NextDi(ret.self) # <<>>

\* C5 as claimed: register of an OUTPUT_META output with a value type that
\* is neither int nor float, the omitted one included, fails with TypeError
\* set for the caller and leaves the instance's output list as it was.
C5_Original ==
    (/\ RegisterReturned
     /\ ret.output_type = SRD_OUTPUT_META
     /\ ret.meta \notin {"int", "float"})
    => /\ ret.res = "NULL"
       /\ ret.err = "TypeError"
       /\ pd_output[ret.self] = ret.pdo0
       /\ IdsArePositions

\* an OUTPUT_META put that found the callback has returned
MetaPutReturned ==
    PutReturned /\ ret.otype = SRD_OUTPUT_META /\ SRD_OUTPUT_META \in callbacks

\* the payload's type is the one the output was registered with
MetaTypeMatches(mtype, obj) ==
    \/ mtype = "INT64" /\ obj.t = "int"
    \/ mtype = "DOUBLE" /\ obj.t = "float"

\* the integer lies in [-2^63, 2^63)
FitsInt64(obj) == obj.x = 0

\* the callback was called once, with the payload's value in the variant of
\* the output's type
MetaDelivered(r) ==
    /\ Len(r.sunk) = 1
    /\ r.sunk[1].start_sample = r.ss /\ r.sunk[1].end_sample = r.es
    /\ r.sunk[1].di = r.self /\ r.sunk[1].pdo_id = r.oid
    /\ IF r.mtype = "INT64"
       THEN /\ r.sunk[1].data.ty = "int64"
            /\ r.sunk[1].data.val = <<r.obj.h, r.obj.v>>
            /\ FitsInt64(r.obj)
       ELSE /\ r.sunk[1].data.ty = "double"
            /\ r.sunk[1].data.dbl = r.obj.s

\* C6 as claimed: with the callback registered, a payload of the output's
\* type is delivered once with its value, and any other payload is not
\* delivered and raises TypeError in the caller.
C6_Original ==
    MetaPutReturned =>
        IF MetaTypeMatches(ret.mtype, ret.obj)
        THEN MetaDelivered(ret)
        ELSE ret.sunk = <<>> /\ ret.err = "TypeError"

\* C6 as amended: as claimed for a float payload and for an integer in
\* [-2^63, 2^63); an integer outside that range put on an int output is not
\* delivered and raises OverflowError in the caller.
C6_MetaConversion ==
    MetaPutReturned =>
        IF ~MetaTypeMatches(ret.mtype, ret.obj)
        THEN ret.sunk = <<>> /\ ret.err = "TypeError"
        ELSE IF ret.mtype = "INT64" /\ ~FitsInt64(ret.obj)
        THEN ret.sunk = <<>> /\ ret.err = "OverflowError"
        ELSE MetaDelivered(ret) /\ ret.err = "none" /\ ret.res = "None"

\* 2^32 + 42 delivered on an int output
C6_Witness ==
    /\ MetaPutReturned /\ ret.mtype = "INT64" /\ ret.obj = PyLong(0, 1, 42)
    /\ Len(ret.sunk) = 1 /\ ret.sunk[1].data.val = <<1, 42>>

\* C7 as claimed: a put on an OUTPUT_ANN, OUTPUT_BINARY or OUTPUT_PACKET
\* output whose conversion fails returns None with no exception set and
\* without calling the callback.
C7_Original ==
    (/\ PutReturned
     /\ ret.otype \in {SRD_OUTPUT_ANN, SRD_OUTPUT_BINARY, SRD_OUTPUT_PACKET}
     /\ ret.conv = "SRD_ERR_PYTHON")
    => ret.res = "None" /\ ret.err = "none" /\ ret.sunk = <<>>

\* C8: a put on an OUTPUT_PACKET output calls decode() once on every stacked
\* instance whether or not a callback is registered and whether or not the
\* payload converts; a failed conversion only keeps the callback from being
\* called.
C8_PacketForwarding ==
    /\ (PutReturned /\ ret.otype = SRD_OUTPUT_PACKET)
       => /\ DecodedAll(ret)
          /\ ret.res = "None"
          /\ ret.sunk # <<>> <=>
                (SRD_OUTPUT_PACKET \in callbacks /\ ret.conv = "SRD_OK")
    /\ \A i \in PutFrames :
          stack[i].py_res = "crashed" =>
              stack[i].otype = SRD_OUTPUT_PACKET /\ DecodedAll(stack[i])

\* both stacked instances were called and the packet's sub type is unknown
C8_Witness ==
    /\ PutReturned /\ ret.otype = SRD_OUTPUT_PACKET /\ ret.self = 1
    /\ ret.conv = "SRD_ERR_PYTHON" /\ Len(ret.decoded) = 2
    /\ ret.obj = PyList(<<AnnOk, PyInt(9), PyInt(7)>>)

\* the integer is the index of one of n declared classes
IsDeclaredIndex(o, n) ==
    o.t = "int" /\ o.x = 0 /\ o.h = 0 /\ o.v >= 0 /\ o.v < n

IsSequence(o) == o.t \in {"list", "tuple"}

AnnPayloadValid(obj) ==
    /\ IsSequence(obj)
    /\ Len(obj.items) = 2
    /\ IsDeclaredIndex(obj.items[1], NumAnnClasses)
    /\ IsSequence(obj.items[2])
    /\ \A k \in 1..Len(obj.items[2].items) : obj.items[2].items[k].t = "str"

\* C9 as claimed: with the callback registered, an OUTPUT_ANN put calls it
\* exactly when the payload is a 2-element sequence of a declared class
\* index and a sequence of strings, and then with that class and those
\* strings in order.
C9_Original ==
    (PutReturned /\ ret.otype = SRD_OUTPUT_ANN /\ SRD_OUTPUT_ANN \in callbacks)
    => /\ ret.sunk # <<>> <=> AnnPayloadValid(ret.obj)
       /\ ret.sunk # <<>> =>
             /\ Len(ret.sunk) = 1
             /\ ret.sunk[1].data.cls = ret.obj.items[1].v
             /\ Len(ret.sunk[1].data.text) = Len(ret.obj.items[2].items)
             /\ \A k \in 1..Len(ret.obj.items[2].items) :
                   ret.sunk[1].data.text[k] = ret.obj.items[2].items[k].s

BinaryPutReturned ==
    PutReturned /\ ret.otype = SRD_OUTPUT_BINARY /\ SRD_OUTPUT_BINARY \in callbacks

IsPair(obj) == obj.t = "tuple" /\ Len(obj.items) = 2

\* C10: with the callback registered, an OUTPUT_BINARY put with a tuple of a
\* declared binary class index and non-empty bytes calls the callback once
\* with that class, those bytes and their number; empty bytes and every
\* payload that is not a 2-tuple are rejected without a callback call.
C10_BinaryConversion ==
    BinaryPutReturned =>
        /\ (/\ IsPair(ret.obj)
            /\ IsDeclaredIndex(ret.obj.items[1], NumBinClasses)
            /\ ret.obj.items[2].t = "bytes"
            /\ Len(ret.obj.items[2].b) > 0)
           => /\ Len(ret.sunk) = 1
              /\ ret.sunk[1].data.ty = "binary"
              /\ ret.sunk[1].data.cls = ret.obj.items[1].v
              /\ ret.sunk[1].data.bin = ret.obj.items[2].b
              /\ ret.sunk[1].data.size = Len(ret.obj.items[2].b)
              /\ ret.sunk[1].start_sample = ret.ss
              /\ ret.sunk[1].end_sample = ret.es
        /\ (/\ IsPair(ret.obj)
            /\ ret.obj.items[2].t = "bytes"
            /\ Len(ret.obj.items[2].b) = 0)
           => ret.sunk = <<>> /\ ret.conv = "SRD_ERR_PYTHON"
        /\ ~IsPair(ret.obj) => ret.sunk = <<>> /\ ret.conv = "SRD_ERR_PYTHON"

C10_Witness ==
    /\ BinaryPutReturned /\ Len(ret.sunk) = 1
    /\ ret.sunk[1].data.bin = <<1, 2>> /\ ret.sunk[1].data.size = 2

PacketPutReturned ==
    PutReturned /\ ret.otype = SRD_OUTPUT_PACKET /\ SRD_OUTPUT_PACKET \in callbacks

\* the integer is a value an int holds unchanged
IsSmallInt(o) == o.t = "int" /\ o.x = 0 /\ o.h = 0

PacketPayloadValid(obj) ==
    /\ IsSequence(obj)
    /\ Len(obj.items) >= 2
    /\ IsDeclaredIndex(obj.items[1], NumAnnClasses)
    /\ IsSmallInt(obj.items[2])
    /\ \/ /\ obj.items[2].v = SRD_PACKET_LOCATION
          /\ Len(obj.items) = 3
          /\ obj.items[3].t = "int"
       \/ /\ obj.items[2].v = SRD_PACKET_FIELD
          /\ Len(obj.items) = 5
          /\ obj.items[3].t = "int"
          /\ obj.items[4].t = "str"
          /\ obj.items[5].t = "str"

\* the event carries the payload's class, sub type, packet number and fields
PacketDelivered(r) ==
    /\ Len(r.sunk) = 1
    /\ r.sunk[1].data.ty = "packet"
    /\ r.sunk[1].data.cls = r.obj.items[1].v
    /\ r.sunk[1].data.sub = r.obj.items[2].v
    /\ IsSmallInt(r.obj.items[3])
    /\ r.sunk[1].data.num = r.obj.items[3].v
    /\ r.obj.items[2].v = SRD_PACKET_FIELD =>
          /\ r.sunk[1].data.fname = <<r.obj.items[4].s>>
          /\ r.sunk[1].data.fvalue = <<r.obj.items[5].s>>

\* C11 as claimed: with the callback registered, an OUTPUT_PACKET put calls
\* it exactly when the payload is a sequence of a declared class index and
\* either SRD_PACKET_LOCATION with 3 elements, the third an integer, or
\* SRD_PACKET_FIELD with 5 elements, the third an integer and the last two
\* strings, and then with the payload's values; every other payload,
\* sequences shorter than 2 elements included, is rejected and the put ends.
C11_Original ==
    /\ PacketPutReturned =>
          /\ ret.sunk # <<>> <=> PacketPayloadValid(ret.obj)
          /\ ret.sunk # <<>> => PacketDelivered(ret)
    /\ \A i \in PutFrames :
          stack[i].otype = SRD_OUTPUT_PACKET => stack[i].py_res # "crashed"

\* the number of classes an event of the output type indexes
ClassListLen(di, output_type) ==
    IF output_type = SRD_OUTPUT_BINARY THEN BinaryLen(di) ELSE AnnotationsLen(di)

\* element 0 of the payload is an integer that is no index of the class list
HasUndeclaredClass(r) ==
    /\ IsSequence(r.obj)
    /\ Len(r.obj.items) >= 1
    /\ r.obj.items[1].t = "int"
    /\ ~IsDeclaredIndex(r.obj.items[1], ClassListLen(r.self, r.otype))

\* C12 as claimed: an event handed to the OUTPUT_ANN, OUTPUT_BINARY or
\* OUTPUT_PACKET callback carries a class that indexes the decoder's class
\* list, and a payload whose class index is negative or too large fails the
\* conversion and is not handed to the callback.
C12_Original ==
    (/\ PutReturned
     /\ ret.otype \in {SRD_OUTPUT_ANN, SRD_OUTPUT_BINARY, SRD_OUTPUT_PACKET}
     /\ ret.otype \in callbacks)
    => /\ \A k \in 1..Len(ret.sunk) :
             /\ ret.sunk[k].data.cls >= 0
             /\ ret.sunk[k].data.cls < ClassListLen(ret.self, ret.otype)
       /\ HasUndeclaredClass(ret) =>
             ret.sunk = <<>> /\ ret.conv = "SRD_ERR_PYTHON"

\* a put or register by an object the runtime has no instance for returned
UnknownInstanceReturned ==
    ret.fn \in {"put", "register"} /\ ret.self \notin Insts

\* the step is the call of an unknown instance, from its entry to its return
UnknownInstanceCall ==
    /\ ret' # ret
    /\ ret'.fn \in {"put", "register"}
    /\ ret'.self \notin Insts

\* C13: a put or register by an unknown instance fails, with an exception
\* for the caller, and does nothing else: no output is created or resolved,
\* no event is allocated, no decode() and no callback is called.
C13_UnknownInstance ==
    /\ [](UnknownInstanceReturned =>
            /\ ret.res = "NULL"
            /\ ret.err # "none"
            /\ ~ret.resolved
            /\ ret.allocs = 0
            /\ ret.decoded = <<>>
            /\ ret.sunk = <<>>
            /\ ret.pdo0 = <<>>)
    /\ [][UnknownInstanceCall =>
            /\ pd_output' = pd_output
            /\ nalloc' = nalloc
            /\ stack' = stack]_vars

\* both calls of the unknown instance are made where instance 1 has an output
C13_Witness ==
    /\ UnknownInstanceReturned /\ ret.fn = "put" /\ ret.ok /\ ret.oid = 0
    /\ Len(pd_output[1]) = 1

\* a put read OUTPUT_TYPES outside its bounds and faulted
FaultedInSpew == crashed /\ ret.fn = "put" /\ ret.res = "fault"

\* C14 as claimed: a put on an output registered with a type outside
\* OUTPUT_TYPES logs and stops: it calls no decode() and no callback, reads
\* no table outside its bounds, frees its struct srd_proto_data and returns
\* None.
C14_Original ==
    /\ (PutReturned /\ ret.otype \notin OutputTypes)
       => /\ ret.decoded = <<>>
          /\ ret.sunk = <<>>
          /\ ret.log = <<"invalid output type">>
          /\ ret.allocs = 1 /\ ret.frees = 1
          /\ ret.res = "None" /\ ret.err = "none"
    /\ ~FaultedInSpew

\* the puts in progress, from the outermost one
NestingDepth == Cardinality(PutFrames)

\* C15: a put that resolved its instance and output allocates one struct
\* srd_proto_data and frees it once before it returns, whatever the switch
\* did; the number allocated is the number of puts in progress at every
\* moment, and none is left once the outermost put has returned.
C15_EventReleased ==
    /\ nalloc = NestingDepth
    /\ stack = <<>> => nalloc = 0
    /\ PutReturned => ret.allocs = 1 /\ ret.frees = 1
    /\ (ret.fn = "put" /\ ~ret.resolved) => ret.allocs = 0 /\ ret.frees = 0

\* a put inside a decode() called by a put, both with their event allocated
C15_Witness ==
    /\ nalloc = 2 /\ NestingDepth = 2 /\ Top.k = "decode"
    /\ stack[1].otype = SRD_OUTPUT_PACKET

\* the step in which a put that walks di->next_di calls the callback
SinkCallOfForwardingPut ==
    /\ ret' # ret
    /\ ret'.fn = "put" /\ ret'.resolved
    /\ Forwards(ret'.otype)
    /\ ret'.sunk # <<>>

\* the put on top of the stack got the result of its last decode() call
LastDecodeIsOver ==
    /\ stack # <<>>
    /\ Top.k = "put"
    /\ Top.py_res \in {"ok", "NULL"}
    /\ Top.l = Len(NextDi(Top.self))
    /\ Len(Top.decoded) = Len(NextDi(Top.self))

\* C16: an OUTPUT_PYTHON put with the callback registered calls it exactly
\* once, with the payload object itself, after decode() was called on every
\* stacked instance, whether those calls failed or not; an OUTPUT_PACKET put
\* calls its callback after the decode() calls as well.
C16_SinkAfterForwarding ==
    /\ []((/\ PutReturned
           /\ ret.otype = SRD_OUTPUT_PYTHON
           /\ SRD_OUTPUT_PYTHON \in callbacks)
          => /\ Len(ret.sunk) = 1
             /\ ret.sunk[1].data.ty = "python"
             /\ ret.sunk[1].data.obj = ret.obj
             /\ ret.sunk[1].start_sample = ret.ss
             /\ ret.sunk[1].end_sample = ret.es
             /\ ret.conv = "none"
             /\ DecodedAll(ret))
    /\ []((PutReturned /\ ret.otype = SRD_OUTPUT_PACKET /\ ret.sunk # <<>>)
          => Len(ret.sunk) = 1 /\ DecodedAll(ret))
    /\ [][(SinkCallOfForwardingPut /\ NextDi(ret'.self) # <<>>)
          => /\ LastDecodeIsOver
             /\ stack' = Below
             /\ ret'.decoded = Top.decoded]_vars

\* the callback got the list after both decode() calls failed
C16_Witness ==
    /\ PutReturned /\ ret.self = 1 /\ ret.otype = SRD_OUTPUT_PYTHON
    /\ Len(ret.sunk) = 1 /\ ret.sunk[1].data.obj = PyList(<<AnnOk, TextAB>>)
    /\ Len(ret.decoded) = 2
    /\ ret.decoded[1].res = "failed" /\ ret.decoded[2].res = "failed"

\* Every call in progress was made by the call right below it, which waits
\* for it: a decode() by the put that is at that instance in its loop, a put
\* by the decode() of the instance that puts.
CallsAreNested ==
    \A i \in 1..Len(stack) :
        /\ stack[i].k = "decode" =>
              /\ i > 1
              /\ stack[i - 1].k = "put"
              /\ stack[i - 1].py_res = "pending"
              /\ Len(stack[i - 1].decoded) = stack[i - 1].l
              /\ NextDi(stack[i - 1].self)[stack[i - 1].l] = stack[i].self
        /\ (stack[i].k = "put" /\ i > 1) =>
              /\ stack[i - 1].k = "decode"
              /\ stack[i - 1].self = stack[i].self
        /\ (stack[i].k = "put" /\ i < Len(stack)) =>
              stack[i].py_res \in {"pending", "crashed"}

\* the calls in progress below position n are the same calls after the step
\* and have called nothing more
CallersWait(n) ==
    /\ Len(stack') >= n
    /\ \A j \in 1..n :
          /\ stack'[j].k = stack[j].k
          /\ stack'[j].self = stack[j].self
          /\ stack'[j].decoded = stack[j].decoded
          /\ stack'[j].l = stack[j].l

\* a put calls decode() on an instance only when it is the call on top of the
\* stack, so all that its earlier decode() calls caused is over
DecodeCalledFromTop ==
    \A i \in 1..Len(stack) :
        (/\ i <= Len(stack')
         /\ stack[i].k = "put" /\ stack'[i].k = "put"
         /\ Len(stack'[i].decoded) > Len(stack[i].decoded))
        => /\ i = Len(stack)
           /\ Len(stack') = i + 1
           /\ stack'[i + 1].k = "decode"
           /\ CallersWait(i - 1)

\* the callback and decode() calls of a put are over when it returns to its
\* caller, and while it runs its callers make no call
PutEffectsInsideCall ==
    (ret' # ret /\ ret'.fn = "put" /\ ret'.resolved)
    => /\ Len(stack') <= Len(stack)
       /\ Len(stack') >= Len(stack) - 1
       /\ CallersWait(Len(stack'))
       /\ \A j \in 1..Len(ret'.decoded) : ret'.decoded[j].res \in {"ok", "failed"}

\* C17: calls are synchronous and depth first.  What a put nested in the
\* decode() of the first stacked instance does is over before the outer put
\* calls decode() on the second one or calls its own callback, and a put has
\* no effect after it returned.
C17_DepthFirst ==
    /\ []CallsAreNested
    /\ [][DecodeCalledFromTop /\ PutEffectsInsideCall]_vars

\* the put nested in the first instance's decode() returned, having called
\* decode() itself, and the second instance was not called yet
C17_Witness ==
    /\ PutReturned /\ ret.self = 2 /\ ret.decoded # <<>>
    /\ Len(stack) = 2 /\ stack[1].self = 1
    /\ Len(stack[1].decoded) = 1 /\ stack[2].k = "decode"

\* C18: with no callback registered for the output's type, a put on an
\* OUTPUT_ANN, OUTPUT_BINARY or OUTPUT_META output runs no converter and does
\* nothing for any payload: no callback and no decode() call, no error
\* logged, no exception set (a meta payload of the wrong type included), and
\* None is returned.
C18_NoSinkNoEffect ==
    (/\ PutReturned
     /\ ret.otype \in {SRD_OUTPUT_ANN, SRD_OUTPUT_BINARY, SRD_OUTPUT_META}
     /\ ret.otype \notin callbacks)
    => /\ ret.conv = "none"
       /\ ret.sunk = <<>>
       /\ ret.decoded = <<>>
       /\ ret.log = <<>>
       /\ ret.err = "none"
       /\ ret.res = "None"
       /\ ret.allocs = ret.frees

\* a float put on an int meta output in a session without a meta callback
C18_Witness ==
    /\ PutReturned /\ ret.otype = SRD_OUTPUT_META /\ ret.mtype = "INT64"
    /\ ret.obj = PyFloat("3.14") /\ SRD_OUTPUT_META \notin callbacks
    /\ ret.res = "None" /\ ret.err = "none"

\* every OUTPUT_META output of every instance has a GVariant type
MetaOutputsTyped ==
    \A i \in Insts : \A k \in 1..Len(pd_output[i]) :
        pd_output[i][k].output_type = SRD_OUTPUT_META
        => pd_output[i][k].meta_type \in {"INT64", "DOUBLE"}

\* the variant g_variant_new_int64 / g_variant_new_double makes for the type
VariantOf(mtype) == IF mtype = "INT64" THEN "int64" ELSE "double"

\* C19: every registered OUTPUT_META output has the meta type INT64 or
\* DOUBLE, a register with another type or with no meta triple having added
\* no output; so every value handed to the OUTPUT_META callback is of the
\* output's type, and convert_meta never returns SRD_OK without a value.
C19_MetaTyped ==
    /\ MetaOutputsTyped
    /\ (/\ RegisterReturned
        /\ ret.output_type = SRD_OUTPUT_META
        /\ ret.meta \notin {"int", "float"})
       => ret.res # "int" /\ pd_output[ret.self] = ret.pdo0
    /\ (PutReturned /\ ret.otype = SRD_OUTPUT_META)
       => /\ ret.mtype \in {"INT64", "DOUBLE"}
          /\ \A k \in 1..Len(ret.sunk) :
                ret.sunk[k].data.ty = VariantOf(ret.mtype)
          /\ ret.conv = "SRD_OK" =>
                Len(ret.sunk) = 1 /\ ret.sunk[1].data.ty # "NULL"

\* an int delivered on an int output of an instance
C19_Witness ==
    /\ PutReturned /\ ret.otype = SRD_OUTPUT_META /\ ret.mtype = "INT64"
    /\ Len(ret.sunk) = 1 /\ ret.sunk[1].data.ty = "int64"
    /\ ret.sunk[1].data.val = <<0, 42>>

====
